---- MODULE Spec2Model ----
(***************************************************************************)
(* Model of atomate/qchem/workflows/base/fragmentation.py:                 *)
(* get_fragmentation_wf, the factory that builds the "FF then fragment"    *)
(* workflow, together with the caller that owns the qchem_input_params     *)
(* mapping and the scheduler that runs the returned workflow.              *)
(*                                                                         *)
(* Python values are tagged records, so that None, numbers and strings are *)
(* distinct values that can be compared.  A dict is a function from its    *)
(* keys to values.  Dicts are objects: they live in heap and are passed    *)
(* and stored by reference.                                                *)
(***************************************************************************)
EXTENDS Integers, Sequences, FiniteSets, TLC

VARIABLES
    pc,         \* "idle" | "returned" | "raised": where the caller stands
    call,       \* the arguments of the call in progress (NoCall when idle)
    entry,      \* the heap as it was on entry to the call
    heap,       \* the dict objects: the caller's mapping and the call's own {}
    reached,    \* the node constructors reached by the call, in order
    raised,     \* where the exception that ended the call came from, or NoRaise
    wf,         \* the workflow the call returned, or None
    fw_states   \* the scheduler's state of each node of wf

vars == <<pc, call, entry, heap, reached, raised, wf, fw_states>>

----------------------------------------------------------------------------
(* Python values *)

None == [t |-> "None"]
Num(n) == [t |-> "num", v |-> n]
Str(s) == [t |-> "str", v |-> s]
Ref(r) == [t |-> "ref", v |-> r]

EmptyDict == <<>>

\* d[k] = v on a dict
SetItem(d, k, v) == [x \in (DOMAIN d) \cup {k} |-> IF x = k THEN v ELSE d[x]]

\* "{}".format(v)
Format(v) == IF v = None THEN "None" ELSE v.v

----------------------------------------------------------------------------
(* Bounds and input domains *)

MaxDepth == 1

\* depth: negative, 0 (the non-iterative scheme) and positive levels
Depths == (-1)..MaxDepth

Molecule(formula, reduced) ==
    [formula |-> formula, composition |-> [reduced_formula |-> reduced]]

Molecules == {Molecule("H2O", "H2O"), Molecule("C2H4", "H2C")}

Dielectrics == {None, Num(0), Num(80)}

MaxCores == {Str(">>max_cores<<"), Num(32)}

QChemCmds == {">>qchem_cmd<<", "qchem -slurm"}

DbFiles == {">>db_file<<", "/db.json"}

Names == {Str("FF then fragment"), Str("bde"), None}

Kwargs == {EmptyDict, [metadata |-> Str("batch")]}

\* the mappings a caller may own before its first call
CallerParams ==
    { EmptyDict,
      [max_scf_cycles |-> Num(200)],
      [max_scf_cycles |-> Num(200), pcm_dielectric |-> Num(80)] }

\* qchem_input_params is None or the caller's mapping
ParamArgs == {None, Ref("caller")}

Args ==
    [ molecule : Molecules,
      depth : Depths,
      open_rings : BOOLEAN,
      pcm_dielectric : Dielectrics,
      do_optimization : BOOLEAN,
      max_cores : MaxCores,
      qchem_input_params : ParamArgs,
      name : Names,
      qchem_cmd : QChemCmds,
      db_file : DbFiles,
      check_db : BOOLEAN,
      kwargs : Kwargs ]

\* the collaborators get_fragmentation_wf calls, in the order it calls them
Collaborators ==
    {"FrequencyFlatteningOptimizeFW", "FragmentFW", "reduced_formula", "Workflow"}

NoCall == [t |-> "idle"]

\* no exception
NoRaise == "none"

----------------------------------------------------------------------------
(* get_fragmentation_wf *)

\* qchem_input_params = qchem_input_params or {}: the object the name is
\* bound to afterwards.  None and an empty mapping are falsy, and the name
\* is then bound to a new empty dict, heap["fresh"].
ParamsObject(h, arg) ==
    IF arg /= None /\ DOMAIN h[arg.v] /= {} THEN arg ELSE Ref("fresh")

\* faulty variant: "if pcm_dielectric:" in place of "if pcm_dielectric != None:"
SetDielectric_Truthy(h, obj, pcm_dielectric) ==
    IF pcm_dielectric /= None /\ pcm_dielectric /= Num(0)
    THEN [h EXCEPT ![obj.v] = SetItem(@, "pcm_dielectric", pcm_dielectric)]
    ELSE h

\* if pcm_dielectric != None: qchem_input_params["pcm_dielectric"] = ...
SetDielectric(h, obj, pcm_dielectric) ==
    IF pcm_dielectric /= None
    THEN [h EXCEPT ![obj.v] = SetItem(@, "pcm_dielectric", pcm_dielectric)]
    ELSE h

\* faulty variant: the command passed as the database file
OptimizeFW_CmdAsDbFile(a, obj) ==
    [ cls |-> "FrequencyFlatteningOptimizeFW",
      kw |-> [ molecule |-> a.molecule,
               name |-> "first FF",
               qchem_cmd |-> a.qchem_cmd,
               max_cores |-> a.max_cores,
               qchem_input_params |-> obj,
               db_file |-> a.qchem_cmd ] ]

\* fw1 of the do_optimization branch
OptimizeFW(a, obj) ==
    [ cls |-> "FrequencyFlatteningOptimizeFW",
      kw |-> [ molecule |-> a.molecule,
               name |-> "first FF",
               qchem_cmd |-> a.qchem_cmd,
               max_cores |-> a.max_cores,
               qchem_input_params |-> obj,
               db_file |-> a.db_file ] ]

\* faulty variant: parents=fw1 left out
FragmentChildFW_NoParents(a, obj, fw1) ==
    [ cls |-> "FragmentFW",
      kw |-> [ depth |-> a.depth,
               open_rings |-> a.open_rings,
               name |-> "fragment and FF_opt",
               qchem_cmd |-> a.qchem_cmd,
               max_cores |-> a.max_cores,
               qchem_input_params |-> obj,
               db_file |-> a.db_file,
               check_db |-> a.check_db ] ]

\* faulty variant: the unrelaxed molecule passed to the child as well
FragmentChildFW_WithMolecule(a, obj, fw1) ==
    [ cls |-> "FragmentFW",
      kw |-> [ molecule |-> a.molecule,
               depth |-> a.depth,
               open_rings |-> a.open_rings,
               name |-> "fragment and FF_opt",
               qchem_cmd |-> a.qchem_cmd,
               max_cores |-> a.max_cores,
               qchem_input_params |-> obj,
               db_file |-> a.db_file,
               check_db |-> a.check_db,
               parents |-> fw1 ] ]

\* fw2 of the do_optimization branch
FragmentChildFW(a, obj, fw1) ==
    [ cls |-> "FragmentFW",
      kw |-> [ depth |-> a.depth,
               open_rings |-> a.open_rings,
               name |-> "fragment and FF_opt",
               qchem_cmd |-> a.qchem_cmd,
               max_cores |-> a.max_cores,
               qchem_input_params |-> obj,
               db_file |-> a.db_file,
               check_db |-> a.check_db,
               parents |-> fw1 ] ]

\* faulty variant: check_db not forwarded, the constructor's default True applies
FragmentRootFW_DefaultCheckDb(a, obj) ==
    [ cls |-> "FragmentFW",
      kw |-> [ molecule |-> a.molecule,
               depth |-> a.depth,
               open_rings |-> a.open_rings,
               name |-> "fragment and FF_opt",
               qchem_cmd |-> a.qchem_cmd,
               max_cores |-> a.max_cores,
               qchem_input_params |-> obj,
               db_file |-> a.db_file,
               check_db |-> TRUE ] ]

\* fw1 of the else branch
FragmentRootFW(a, obj) ==
    [ cls |-> "FragmentFW",
      kw |-> [ molecule |-> a.molecule,
               depth |-> a.depth,
               open_rings |-> a.open_rings,
               name |-> "fragment and FF_opt",
               qchem_cmd |-> a.qchem_cmd,
               max_cores |-> a.max_cores,
               qchem_input_params |-> obj,
               db_file |-> a.db_file,
               check_db |-> a.check_db ] ]

\* faulty variant: fws = [fw2, fw1]
Fireworks_Reversed(a, obj) ==
    IF a.do_optimization
    THEN LET fw1 == OptimizeFW(a, obj)
         IN  <<FragmentChildFW(a, obj, fw1), fw1>>
    ELSE <<FragmentRootFW(a, obj)>>

\* faulty variant: the do_optimization branch taken whatever the flag
Fireworks_AlwaysOptimize(a, obj) ==
    LET fw1 == OptimizeFW(a, obj)
    IN  <<fw1, FragmentChildFW(a, obj, fw1)>>

\* fws
Fireworks(a, obj) ==
    IF a.do_optimization
    THEN LET fw1 == OptimizeFW(a, obj)
         IN  <<fw1, FragmentChildFW(a, obj, fw1)>>
    ELSE <<FragmentRootFW(a, obj)>>

\* faulty variant: the full formula in place of the reduced formula
WfName_FullFormula(molecule, name) ==
    molecule.formula \o ":" \o Format(name)

\* wfname
WfName(molecule, name) ==
    molecule.composition.reduced_formula \o ":" \o Format(name)

\* Workflow(fws, name=wfname, **kwargs): the nodes, the name, and a link from
\* each node named as a parent to the node naming it
Workflow(fws, name, kwargs) ==
    [ fws |-> fws,
      name |-> name,
      links |-> { l \in (DOMAIN fws) \X (DOMAIN fws) :
                    /\ "parents" \in DOMAIN fws[l[2]].kw
                    /\ fws[l[2]].kw.parents = fws[l[1]] },
      kwargs |-> kwargs ]

\* faulty variant: a negative depth rejected
Rejects_NegativeDepth(a) == a.depth < 0

\* a check of the arguments made by get_fragmentation_wf itself: there is none
Rejects(a) == FALSE

\* the collaborators a call with arguments a goes through, in order
CallOrder(a) ==
    IF a.do_optimization
    THEN <<"FrequencyFlatteningOptimizeFW", "FragmentFW", "reduced_formula", "Workflow">>
    ELSE <<"FragmentFW", "reduced_formula", "Workflow">>

\* the nodes constructed when collaborator ext raises (all of them when none does)
Constructed(a, fws, ext) ==
    IF ext = "FrequencyFlatteningOptimizeFW" THEN <<>>
    ELSE IF ext = "FragmentFW" THEN SubSeq(fws, 1, Len(fws) - 1)
    ELSE fws

\* One call of get_fragmentation_wf with arguments a; ext is the collaborator
\* that raises during the call, or NoRaise.
GetFragmentationWf(a, ext) ==
    /\ pc = "idle"
    /\ ext \in {NoRaise} \cup { CallOrder(a)[i] : i \in DOMAIN CallOrder(a) }
    /\ LET obj == ParamsObject(heap, a.qchem_input_params)
           h == SetDielectric(heap, obj, a.pcm_dielectric)
           fws == Fireworks(a, obj)
           wfname == WfName(a.molecule, a.name)
       IN  /\ call' = a
           /\ entry' = heap
           /\ IF Rejects(a)
              THEN /\ heap' = heap
                   /\ reached' = <<>>
                   /\ raised' = "get_fragmentation_wf"
                   /\ wf' = None
                   /\ fw_states' = <<>>
                   /\ pc' = "raised"
              ELSE /\ heap' = h
                   /\ IF ext = NoRaise
                      THEN /\ reached' = fws
                           /\ raised' = NoRaise
                           /\ wf' = Workflow(fws, wfname, a.kwargs)
                           /\ fw_states' = [i \in DOMAIN fws |-> "WAITING"]
                           /\ pc' = "returned"
                      ELSE /\ reached' = Constructed(a, fws, ext)
                           /\ raised' = ext
                           /\ wf' = None
                           /\ fw_states' = <<>>
                           /\ pc' = "raised"

\* the caller calls get_fragmentation_wf
Call ==
    /\ pc = "idle"
    /\ \E a \in Args, ext \in {NoRaise} \cup Collaborators :
          GetFragmentationWf(a, ext)

----------------------------------------------------------------------------
(* The scheduler that runs a returned workflow, and the caller moving on *)

Parents(w, i) == { p \in DOMAIN w.fws : <<p, i>> \in w.links }

Runnable(i) ==
    /\ fw_states[i] = "WAITING"
    /\ \A p \in Parents(wf, i) : fw_states[p] = "COMPLETED"

Launch(i) ==
    /\ pc = "returned"
    /\ Runnable(i)
    /\ fw_states' = [fw_states EXCEPT ![i] = "RUNNING"]
    /\ UNCHANGED <<pc, call, entry, heap, reached, raised, wf>>

Complete(i) ==
    /\ pc = "returned"
    /\ fw_states[i] = "RUNNING"
    /\ fw_states' = [fw_states EXCEPT ![i] = "COMPLETED"]
    /\ UNCHANGED <<pc, call, entry, heap, reached, raised, wf>>

\* the caller is done with the outcome of the call; its own mapping stays
Release ==
    /\ pc /= "idle"
    /\ pc' = "idle"
    /\ call' = NoCall
    /\ entry' = [heap EXCEPT !["fresh"] = EmptyDict]
    /\ heap' = [heap EXCEPT !["fresh"] = EmptyDict]
    /\ reached' = <<>>
    /\ raised' = NoRaise
    /\ wf' = None
    /\ fw_states' = <<>>

----------------------------------------------------------------------------

Init ==
    /\ pc = "idle"
    /\ call = NoCall
    /\ \E d \in CallerParams :
          /\ heap = [caller |-> d, fresh |-> EmptyDict]
          /\ entry = [caller |-> d, fresh |-> EmptyDict]
    /\ reached = <<>>
    /\ raised = NoRaise
    /\ wf = None
    /\ fw_states = <<>>

Next ==
    \/ Call
    \/ \E i \in DOMAIN fw_states : Launch(i)
    \/ \E i \in DOMAIN fw_states : Complete(i)
    \/ Release

Spec == Init /\ [][Next]_vars

----------------------------------------------------------------------------
(* Properties *)

Returned == pc = "returned"

Nodes == DOMAIN wf.fws

IsOptimize(n) == n.cls = "FrequencyFlatteningOptimizeFW"

IsFragment(n) == n.cls = "FragmentFW"

\* the input parameters a node holds: the contents of the dict it refers to
ParamsOf(n) == heap[n.kw.qchem_input_params.v]

\* the mapping the caller supplied, None read as the empty mapping
Supplied ==
    IF call.qchem_input_params = None THEN EmptyDict ELSE entry["caller"]

\* C1: with do_optimization true the workflow holds exactly two nodes, the
\* optimization node "first FF" then the fragmentation node "fragment and
\* FF_opt", and exactly one link: the optimization node is the only parent of
\* the fragmentation node and has no parent itself.
C1_TwoNodesOneEdge ==
    (Returned /\ call.do_optimization) =>
        /\ Len(wf.fws) = 2
        /\ IsOptimize(wf.fws[1]) /\ wf.fws[1].kw.name = "first FF"
        /\ IsFragment(wf.fws[2]) /\ wf.fws[2].kw.name = "fragment and FF_opt"
        /\ wf.links = {<<1, 2>>}
        /\ Parents(wf, 2) = {1}
        /\ Parents(wf, 1) = {}
        /\ "parents" \notin DOMAIN wf.fws[1].kw

C1_Witness ==
    /\ Returned
    /\ call.do_optimization
    /\ Len(wf.fws) = 2
    /\ wf.links = {<<1, 2>>}

\* C2: with do_optimization false the workflow holds exactly one node, a
\* fragmentation node without a parent; an optimization node is present if
\* and only if do_optimization is true.
C2_OneNodeNoOptimize ==
    Returned =>
        /\ ~call.do_optimization =>
              /\ Len(wf.fws) = 1
              /\ IsFragment(wf.fws[1])
              /\ wf.fws[1].kw.name = "fragment and FF_opt"
              /\ wf.links = {}
              /\ "parents" \notin DOMAIN wf.fws[1].kw
        /\ (\E i \in Nodes : IsOptimize(wf.fws[i])) <=> call.do_optimization

C2_Witness ==
    /\ Returned
    /\ ~call.do_optimization
    /\ Len(wf.fws) = 1
    /\ IsFragment(wf.fws[1])

\* C3 as stated: the workflow's name is the molecule's reduced formula
\* concatenated with the label.
C3_NameIsFormulaThenLabel ==
    Returned =>
        wf.name = call.molecule.composition.reduced_formula \o Format(call.name)

\* C3, amended: the workflow's name is the molecule's reduced formula, a
\* colon, and the label as str.format renders it, in both branches.
C3_NameIsFormulaColonLabel ==
    Returned =>
        wf.name =
            call.molecule.composition.reduced_formula \o ":" \o
                (IF call.name = None THEN "None" ELSE call.name.v)

C3_Witness ==
    /\ Returned
    /\ call.molecule.formula = "C2H4"
    /\ call.name = Str("bde")
    /\ wf.name = "H2C:bde"

\* C4 as stated: every node holds max_cores, qchem_cmd, db_file and
\* qchem_input_params equal to the values the caller supplied.
C4_PassThroughUnmodified ==
    Returned =>
        \A i \in Nodes :
            /\ wf.fws[i].kw.max_cores = call.max_cores
            /\ wf.fws[i].kw.qchem_cmd = call.qchem_cmd
            /\ wf.fws[i].kw.db_file = call.db_file
            /\ call.qchem_input_params /= None
            /\ ParamsOf(wf.fws[i]) = entry["caller"]

\* C4, amended: every node holds max_cores, qchem_cmd and db_file equal to
\* the values supplied; its input parameters agree with the supplied mapping
\* (None read as empty) on every key but "pcm_dielectric", and on that key
\* too when pcm_dielectric is None.
C4_PassThroughExceptDielectric ==
    Returned =>
        \A i \in Nodes :
            /\ wf.fws[i].kw.max_cores = call.max_cores
            /\ wf.fws[i].kw.qchem_cmd = call.qchem_cmd
            /\ wf.fws[i].kw.db_file = call.db_file
            /\ \A k \in (DOMAIN Supplied \cup DOMAIN ParamsOf(wf.fws[i]))
                            \ {"pcm_dielectric"} :
                  /\ k \in DOMAIN Supplied
                  /\ k \in DOMAIN ParamsOf(wf.fws[i])
                  /\ ParamsOf(wf.fws[i])[k] = Supplied[k]
            /\ call.pcm_dielectric = None => ParamsOf(wf.fws[i]) = Supplied

C4_Witness ==
    /\ Returned
    /\ call.do_optimization
    /\ call.max_cores = Num(32)
    /\ call.qchem_cmd = "qchem -slurm"
    /\ call.db_file = "/db.json"
    /\ call.pcm_dielectric = Num(80)
    /\ call.qchem_input_params /= None
    /\ entry["caller"] = [max_scf_cycles |-> Num(200)]
    /\ ParamsOf(wf.fws[2]) /= entry["caller"]

\* C5: under a scheduler that honours the links, the fragmentation node of a
\* do_optimization workflow is never started before the optimization node
\* has completed; without do_optimization the single fragmentation node,
\* while not yet started, is runnable at once.
C5_FragmentAfterOptimize ==
    Returned =>
        /\ call.do_optimization =>
              \A i \in Nodes, j \in Nodes :
                  (/\ IsFragment(wf.fws[i])
                   /\ IsOptimize(wf.fws[j])
                   /\ fw_states[i] /= "WAITING") => fw_states[j] = "COMPLETED"
        /\ ~call.do_optimization =>
              \A i \in Nodes : fw_states[i] = "WAITING" => Runnable(i)

C5_Witness ==
    /\ Returned
    /\ call.do_optimization
    /\ fw_states = <<"COMPLETED", "RUNNING">>

\* C6: get_fragmentation_wf rejects nothing itself.  For every depth
\* (0 and negative included), open_rings, check_db, max_cores, qchem_cmd and
\* db_file, a call ends by returning the workflow or by the exception of a
\* collaborator it went through, and each node constructor it reached got
\* those values unchanged.
C6_NoValidation ==
    pc /= "idle" =>
        /\ raised \in {NoRaise} \cup Collaborators
        /\ raised = NoRaise <=> Returned
        /\ raised \notin {"FrequencyFlatteningOptimizeFW", "FragmentFW"} =>
              \E i \in DOMAIN reached : IsFragment(reached[i])
        /\ \A i \in DOMAIN reached :
              /\ reached[i].kw.max_cores = call.max_cores
              /\ reached[i].kw.qchem_cmd = call.qchem_cmd
              /\ reached[i].kw.db_file = call.db_file
              /\ IsFragment(reached[i]) =>
                    /\ reached[i].kw.depth = call.depth
                    /\ reached[i].kw.open_rings = call.open_rings
                    /\ reached[i].kw.check_db = call.check_db

C6_Witness ==
    /\ Returned
    /\ call.depth < 0
    /\ ~call.open_rings
    /\ \E i \in Nodes : IsFragment(wf.fws[i]) /\ wf.fws[i].kw.depth < 0

\* C7: the caller's molecule is given to the first node of the workflow and
\* to no other: to the optimization node with do_optimization (the
\* fragmentation node then gets no molecule argument), and to the
\* fragmentation node without.
C7_MoleculeToFirstNodeOnly ==
    Returned =>
        /\ "molecule" \in DOMAIN wf.fws[1].kw
        /\ wf.fws[1].kw.molecule = call.molecule
        /\ IsOptimize(wf.fws[1]) <=> call.do_optimization
        /\ \A i \in Nodes : i /= 1 => "molecule" \notin DOMAIN wf.fws[i].kw

C7_Witness ==
    /\ Returned
    /\ call.do_optimization
    /\ IsFragment(wf.fws[2])
    /\ "molecule" \notin DOMAIN wf.fws[2].kw
    /\ wf.fws[1].kw.molecule = call.molecule

\* C8: depth, open_rings and check_db reach the fragmentation node
\* unchanged in both branches, and reach no other node.
C8_FragmentArgsForwarded ==
    Returned =>
        /\ \E i \in Nodes : IsFragment(wf.fws[i])
        /\ \A i \in Nodes :
              /\ IsFragment(wf.fws[i]) =>
                    /\ {"depth", "open_rings", "check_db"} \subseteq DOMAIN wf.fws[i].kw
                    /\ wf.fws[i].kw.depth = call.depth
                    /\ wf.fws[i].kw.open_rings = call.open_rings
                    /\ wf.fws[i].kw.check_db = call.check_db
              /\ IsOptimize(wf.fws[i]) =>
                    {"depth", "open_rings", "check_db"} \cap DOMAIN wf.fws[i].kw = {}

C8_Witness ==
    /\ Returned
    /\ call.do_optimization
    /\ call.depth = 0
    /\ ~call.check_db
    /\ wf.fws[2].kw.depth = 0
    /\ ~wf.fws[2].kw.check_db

\* C9: every node of the workflow sees the same input parameters: the
\* supplied mapping (None read as empty) with "pcm_dielectric" set to
\* pcm_dielectric when that is not None (0 included), overriding a supplied
\* value, and with nothing added or changed when it is None.
C9_MergedInputParams ==
    Returned =>
        /\ \A i \in Nodes, j \in Nodes :
              wf.fws[i].kw.qchem_input_params = wf.fws[j].kw.qchem_input_params
        /\ \A i \in Nodes :
              LET p == ParamsOf(wf.fws[i])
              IN  /\ DOMAIN p =
                       DOMAIN Supplied \cup
                         (IF call.pcm_dielectric = None
                          THEN {} ELSE {"pcm_dielectric"})
                  /\ \A k \in DOMAIN p :
                        p[k] = IF k = "pcm_dielectric" /\ call.pcm_dielectric /= None
                               THEN call.pcm_dielectric
                               ELSE Supplied[k]

C9_Witness ==
    /\ Returned
    /\ call.do_optimization
    /\ call.pcm_dielectric = Num(0)
    /\ call.qchem_input_params /= None
    /\ "pcm_dielectric" \in DOMAIN entry["caller"]
    /\ entry["caller"]["pcm_dielectric"] = Num(80)
    /\ ParamsOf(wf.fws[1])["pcm_dielectric"] = Num(0)
    /\ ParamsOf(wf.fws[2])["pcm_dielectric"] = Num(0)

\* C10: a call leaves the caller's own qchem_input_params mapping with the
\* contents it had on entry, so calls that reuse the mapping do not see the
\* pcm_dielectric of an earlier call.
C10_CallerMappingUnchanged ==
    pc /= "idle" => heap["caller"] = entry["caller"]

====
